---- MODULE Spec2Model ----
(***************************************************************************)
(* noodle: announce an IP on an interface via gratuitous ARP, watch for    *)
(* competing announcements, and manage the address on the interface.       *)
(* The model follows src/main.rs: `prep`, `run` (the supervisor), the      *)
(* listener and blaster closures it spawns, the ctrlc handler, `jittered`  *)
(* and `main`'s exit code.                                                 *)
(***************************************************************************)
EXTENDS Integers, Sequences, FiniteSets, TLC

\* ------------------------------------------------------------------ bounds

\* largest --count enumerated (0 = unbounded)
MaxCount == 2
\* frames the blaster may transmit in one behaviour (caps n when count = 0)
MaxSends == 2
\* frames the listener may receive in one behaviour
MaxRx == 2
\* interrupts (SIGINT/SIGTERM) delivered in one behaviour
MaxInterrupts == 2
\* largest --interval, --jitter and --delay enumerated, in seconds
MaxSecs == 1

\* ------------------------------------------------------- program constants

\* EtherTypes::Arp (0x0806) and EtherTypes::Ipv4 (0x0800)
EtherTypeArp == 2054
EtherTypeIpv4 == 2048
\* EthernetPacket::minimum_packet_size() and ArpPacket::minimum_packet_size()
EthHeaderLen == 14
ArpPacketLen == 28
\* ArpHardwareTypes::Ethernet, and the address lengths the blaster sets
ArpHardwareEthernet == 1
HwAddrLen == 6
ProtoAddrLen == 4
\* ArpOperations::Request / ArpOperations::Reply
ArpRequest == 1
ArpReply == 2
\* capacity of channel::bounded(1)
ShutdownCapacity == 1
\* milliseconds in a second: Duration::from_secs(..).as_millis()
MsPerSec == 1000
\* exit status of a process that is still running (no status yet)
Running == -1
\* exit status of a Rust process whose main thread panicked
PanicStatus == 101
\* no inter-frame sleep has been taken yet
NotSlept == -1

\* the claim descriptor of the default runs (the announced ip, the sender
\* mac) and one competitor of each, as octets
ClaimIp == <<10, 0, 0, 42>>
OtherIp == <<10, 0, 0, 7>>
ClaimMac == <<2, 0, 0, 0, 0, 1>>
OtherMac == <<170, 187, 204, 221, 238, 255>>
Broadcast == <<255, 255, 255, 255, 255, 255>>

WatchModes == {"Fail", "Quit", "Log", "No"}

\* ------------------------------------------------------------------- state

VARIABLES
    argv,          \* the options as parsed from the command line
    args,          \* the options record: `prep`'s `mut args`, then run's `args`
    prep,          \* how `prep` ended: "pending", "ok", "jitter", "env"
    claim,         \* what is announced: [ip, mac, target]
    ipV6,          \* --ip is an IpNetwork::V6
    pcS,           \* where `main` / `run` (the supervisor) is
    ip_managed,    \* run's `mut ip_managed`
    addrPresent,   \* the address is on the interface (kernel state)
    preExisting,   \* the address was on the interface when the process started
    added,         \* this run's add request succeeded
    found,         \* what the preflight find returned: "unknown", "some", "none"
    nl,            \* netlink requests issued: [list, add, del]
    terminator,    \* entries in the bounded(1) shutdown channel
    handler,       \* ctrlc handler: "none", "installed", "panicked"
    interrupts,    \* signals delivered so far
    pcL,           \* where the listener closure is
    resL,          \* the listener's result: "none", "ok" (Watch::No), "quit", "fail", "io", "signal"
    watch_signal,  \* the pulse::Signal: "none", "unfired", "pulsed", "dropped"
    rxFrame,       \* the frame the listener last received, decoded
    policy,        \* the policy action taken on rxFrame: "none", "Fail", "Quit", "Log"
    rxCount,       \* frames the listener received
    warns,         \* WARN records "received competing announce!"
    pcB,           \* where the blaster closure is
    resB,          \* the blaster's result: "none", "ok", "io"
    n,             \* the blaster's counter: frames transmitted
    txFrame,       \* the bytes of the frame the blaster last transmitted
    slept,         \* the duration of the last jittered sleep, in ms
    winner,        \* which branch of the race completed it
    runErr,        \* the race ended with Err (printed by eprintln!)
    tdFailed,      \* teardown's find or del returned Err
    extRemoved,    \* the address was removed by someone else during the run
    exitCode       \* the process's exit status, Running until it exits

vars == <<argv, args, prep, claim, ipV6, pcS, ip_managed, addrPresent, preExisting, added,
          found, nl, terminator, handler,
          interrupts, pcL, resL, watch_signal, rxFrame, policy, rxCount, warns,
          pcB, resB, n, txFrame, slept, winner, runErr, tdFailed, extRemoved, exitCode>>

cfgVars == <<argv, prep, claim, slept>>
supVars == <<pcS, ip_managed, found, winner, runErr, tdFailed, exitCode>>
sigVars == <<terminator, handler, interrupts>>
lisVars == <<pcL, resL, rxFrame, policy, rxCount, warns>>
blaVars == <<pcB, resB, n, txFrame>>

\* ------------------------------------------------------------------ frames

\* A decoded frame: its length in bytes, the Ethernet header fields and
\* the ARP fields.  A frame shorter than a header has the fields of what
\* was cut zeroed by convention.
NoFrame == [len |-> 0, ethertype |-> 0, src |-> <<>>, dst |-> <<>>,
            htype |-> 0, ptype |-> 0, hlen |-> 0, plen |-> 0, op |-> 0,
            sender_hw |-> <<>>, sender_proto |-> <<>>,
            target_hw |-> <<>>, target_proto |-> <<>>]

\* a blaster that leaves target_hw zeroed, as for an ARP probe
BlasterFrameZeroTarget(arp_reply) ==
    [len |-> EthHeaderLen + ArpPacketLen,
     ethertype |-> EtherTypeArp,
     src |-> claim.mac,
     dst |-> claim.target,
     htype |-> ArpHardwareEthernet,
     ptype |-> EtherTypeIpv4,
     hlen |-> HwAddrLen,
     plen |-> ProtoAddrLen,
     op |-> IF arp_reply THEN ArpReply ELSE ArpRequest,
     sender_hw |-> claim.mac,
     sender_proto |-> claim.ip,
     target_hw |-> <<0, 0, 0, 0, 0, 0>>,
     target_proto |-> claim.ip]

\* the fields the blaster sets on every iteration; len is the size of the
\* buffer it allocates
BlasterFrame(arp_reply) ==
    [len |-> EthHeaderLen + ArpPacketLen,
     ethertype |-> EtherTypeArp,
     src |-> claim.mac,
     dst |-> claim.target,
     htype |-> ArpHardwareEthernet,
     ptype |-> EtherTypeIpv4,
     hlen |-> HwAddrLen,
     plen |-> ProtoAddrLen,
     op |-> IF arp_reply THEN ArpReply ELSE ArpRequest,
     sender_hw |-> claim.mac,
     sender_proto |-> claim.ip,
     target_hw |-> claim.mac,
     target_proto |-> claim.ip]

\* a 16-bit field, big-endian
U16(x) == <<x \div 256, x % 256>>
FromU16(b, i) == b[i] * 256 + b[i + 1]

\* the packet the setters of MutableEthernetPacket / MutableArpPacket
\* write: Ethernet dst, src, ethertype; ARP htype, ptype, hlen, plen, op,
\* sender hw, sender proto, target hw, target proto
EncodeFrame(f) ==
    f.dst \o f.src \o U16(f.ethertype)
      \o U16(f.htype) \o U16(f.ptype) \o <<f.hlen, f.plen>> \o U16(f.op)
      \o f.sender_hw \o f.sender_proto \o f.target_hw \o f.target_proto

\* what the getters of EthernetPacket / ArpPacket read from a full packet
DecodeBytes(b) ==
    [len |-> Len(b),
     dst |-> SubSeq(b, 1, 6),
     src |-> SubSeq(b, 7, 12),
     ethertype |-> FromU16(b, 13),
     htype |-> FromU16(b, 15),
     ptype |-> FromU16(b, 17),
     hlen |-> b[19],
     plen |-> b[20],
     op |-> FromU16(b, 21),
     sender_hw |-> SubSeq(b, 23, 28),
     sender_proto |-> SubSeq(b, 29, 32),
     target_hw |-> SubSeq(b, 33, 38),
     target_proto |-> SubSeq(b, 39, 42)]

\* ARP frames other hosts may put on the link
ForeignArpFrames ==
    { [NoFrame EXCEPT !.len = EthHeaderLen + ArpPacketLen, !.ethertype = EtherTypeArp,
                      !.src = hw, !.dst = Broadcast,
                      !.htype = ArpHardwareEthernet, !.ptype = EtherTypeIpv4,
                      !.hlen = HwAddrLen, !.plen = ProtoAddrLen, !.op = ArpRequest,
                      !.sender_hw = hw, !.sender_proto = sp,
                      !.target_hw = hw, !.target_proto = tp]
      : hw \in {ClaimMac, OtherMac}, sp \in {ClaimIp, OtherIp}, tp \in {ClaimIp, OtherIp} }

\* a non-ARP frame, a frame too short for an Ethernet header, and an ARP
\* frame whose payload is too short for an ARP packet
NonArpFrame == [NoFrame EXCEPT !.len = EthHeaderLen + ArpPacketLen,
                               !.ethertype = EtherTypeIpv4, !.src = OtherMac, !.dst = ClaimMac]
ShortEthFrame == [NoFrame EXCEPT !.len = EthHeaderLen - 1]
ShortArpFrame == [NoFrame EXCEPT !.len = EthHeaderLen + ArpPacketLen - 1,
                                 !.ethertype = EtherTypeArp, !.src = OtherMac, !.dst = Broadcast]

\* what rx.next() may deliver: in promiscuous mode, also the frame we last
\* sent (tx, its bytes)
WireFrames(tx) ==
    ForeignArpFrames \cup {NonArpFrame, ShortEthFrame, ShortArpFrame}
        \cup (IF tx # <<>> THEN {DecodeBytes(tx)} ELSE {})

\* the listener's decode of one frame: "eth_short", "skip" (not ARP),
\* "arp_short", or "arp"
Decode(f) ==
    IF f.len < EthHeaderLen THEN "eth_short"
    ELSE IF f.ethertype # EtherTypeArp THEN "skip"
    ELSE IF f.len - EthHeaderLen < ArpPacketLen THEN "arp_short"
    ELSE "arp"

Gratuitous(f) == f.sender_proto = f.target_proto

\* a conflict check that forgets to exclude our own mac
ConflictIgnoringMac(f) ==
    /\ Gratuitous(f)
    /\ f.sender_proto = claim.ip

\* the listener's conflict check
Conflict(f) ==
    /\ Gratuitous(f)
    /\ f.sender_proto = claim.ip
    /\ f.sender_hw # claim.mac

\* ------------------------------------------------------------------- inputs

\* the options of the runs of Spec, as `prep` hands them to `run`
ArgsSet ==
    [unmanaged_ip : BOOLEAN,
     die_if_ip_exists : BOOLEAN,
     remove_pre_existing_ip : BOOLEAN,
     watch : WatchModes,
     watch_immediately : BOOLEAN,
     count : 0..MaxCount,
     arp_reply : {FALSE},
     once : {FALSE},
     interval : {MaxSecs},
     jitter : {0},
     delay : {0}]

\* the default claim: the interface's mac, broadcast target
DefaultClaim == [ip |-> ClaimIp, mac |-> ClaimMac, target |-> Broadcast]

\* the state in which every run starts, whatever its options
InitRun ==
    /\ ip_managed = ~args.unmanaged_ip
    /\ preExisting = addrPresent
    /\ added = FALSE
    /\ found = "unknown"
    /\ nl = [list |-> 0, add |-> 0, del |-> 0]
    /\ terminator = 0
    /\ handler = "none"
    /\ interrupts = 0
    /\ pcL = "none"
    /\ resL = "none"
    /\ watch_signal = "none"
    /\ rxFrame = NoFrame
    /\ policy = "none"
    /\ rxCount = 0
    /\ warns = 0
    /\ pcB = "none"
    /\ resB = "none"
    /\ n = 0
    /\ txFrame = <<>>
    /\ slept = NotSlept
    /\ winner = "none"
    /\ runErr = FALSE
    /\ tdFailed = FALSE
    /\ extRemoved = FALSE
    /\ exitCode = Running

\* a run of the default claim, at the entry of `run`.  --die-if-ip-exists
\* and --remove-pre-existing-ip are read only where the preflight finds the
\* address: the managed runs that start without it are enumerated once,
\* with both unset.
Init ==
    /\ args \in ArgsSet
    /\ argv = args
    /\ prep = "ok"
    /\ claim = DefaultClaim
    /\ ipV6 \in BOOLEAN
    /\ pcS = "open"
    /\ addrPresent \in BOOLEAN
    /\ (~args.unmanaged_ip /\ ~addrPresent) =>
         (~args.die_if_ip_exists /\ ~args.remove_pre_existing_ip)
    /\ InitRun

\* ------------------------------------------------------------- supervisor

\* main: a run that returns Err is logged and the process exits 1; a run
\* that returns Ok exits 0; a panic on the main thread exits 101
ExitStatus(result) ==
    CASE result = "ok" -> 0
      [] result = "err" -> 1
      [] result = "panic" -> PanicStatus

\* datachannel(&interface, ...)?
OpenChannel ==
    /\ pcS = "open"
    /\ \E ok \in BOOLEAN :
         IF ok THEN /\ pcS' = "sethandler"
                    /\ exitCode' = exitCode
               ELSE /\ pcS' = "exited"
                    /\ exitCode' = ExitStatus("err")
    /\ UNCHANGED <<cfgVars, args, ipV6, preExisting, added, ip_managed, addrPresent, found, nl, winner, runErr,
                   tdFailed, extRemoved>>
    /\ UNCHANGED <<sigVars, lisVars, blaVars, watch_signal>>

\* channel::bounded(1); ctrlc::set_handler(...)?; rtnetlink::new_connection()?
SetHandler ==
    /\ pcS = "sethandler"
    /\ handler' = "installed"
    /\ pcS' = IF ip_managed THEN "find" ELSE "spawn"
    /\ UNCHANGED <<cfgVars, args, ipV6, preExisting, added, ip_managed, addrPresent, found, nl, winner, runErr,
                   tdFailed, extRemoved, exitCode>>
    /\ UNCHANGED <<terminator, interrupts, lisVars, blaVars, watch_signal>>

\* a lookup that returns a stale record although the address is gone
FindAddrStale(present, ok) ==
    IF ~ok THEN "err" ELSE "some"

\* find_addr_for_ip: one list request; Err, or the record if it is there
FindAddr(present, ok) ==
    IF ~ok THEN "err" ELSE IF present THEN "some" ELSE "none"

\* a preflight that ignores --die-if-ip-exists
PreflightDecisionNoDie(r, a) ==
    CASE r = "err" -> "err"
      [] r = "some" /\ ~a.remove_pre_existing_ip -> "unmanage"
      [] r = "some" /\ a.remove_pre_existing_ip -> "keep"
      [] r = "none" -> "add"

\* a preflight that keeps managing an address it did not add
PreflightDecisionKeepManaged(r, a) ==
    CASE r = "err" -> "err"
      [] r = "some" /\ a.die_if_ip_exists -> "die"
      [] r = "some" /\ ~a.die_if_ip_exists -> "keep"
      [] r = "none" -> "add"

\* what the preflight does with the find's result r: "err" (return the
\* error), "die" (return Err: ip exists), "keep" (stay managed, no add),
\* "unmanage" (ip_managed = false), "add"
PreflightDecision(r, a) ==
    CASE r = "err" -> "err"
      [] r = "some" /\ a.die_if_ip_exists -> "die"
      [] r = "some" /\ ~a.die_if_ip_exists /\ ~a.remove_pre_existing_ip -> "unmanage"
      [] r = "some" /\ ~a.die_if_ip_exists /\ a.remove_pre_existing_ip -> "keep"
      [] r = "none" -> "add"

\* if ip_managed { find_addr_for_ip(..).await? ... }
PreflightFind ==
    /\ pcS = "find"
    /\ nl' = [nl EXCEPT !.list = @ + 1]
    /\ \E ok \in BOOLEAN :
         LET r == FindAddr(addrPresent, ok)
             d == PreflightDecision(r, args)
         IN
         /\ found' = IF r = "err" THEN found ELSE r
         /\ ip_managed' = IF d = "unmanage" THEN FALSE ELSE ip_managed
         /\ CASE d \in {"err", "die"} ->
                   pcS' = "exited" /\ exitCode' = ExitStatus("err")
              [] d \in {"keep", "unmanage"} ->
                   pcS' = "spawn" /\ exitCode' = exitCode
              [] d = "add" ->
                   pcS' = "add" /\ exitCode' = exitCode
    /\ UNCHANGED <<cfgVars, args, ipV6, preExisting, added, addrPresent, winner, runErr, tdFailed, extRemoved>>
    /\ UNCHANGED <<sigVars, lisVars, blaVars, watch_signal>>

\* nlah.add(interface.index, ip.ip(), ip.prefix()).execute().await?
PreflightAdd ==
    /\ pcS = "add"
    /\ nl' = [nl EXCEPT !.add = @ + 1]
    /\ \E ok \in BOOLEAN :
         IF ok THEN /\ addrPresent' = TRUE
                    /\ added' = TRUE
                    /\ pcS' = "spawn"
                    /\ exitCode' = exitCode
               ELSE /\ addrPresent' = addrPresent
                    /\ added' = added
                    /\ pcS' = "exited"
                    /\ exitCode' = ExitStatus("err")
    /\ UNCHANGED <<cfgVars, args, ipV6, preExisting, ip_managed, found, winner, runErr, tdFailed, extRemoved>>
    /\ UNCHANGED <<sigVars, lisVars, blaVars, watch_signal>>

\* the Signal the listener waits on: Signal::pulsed() when the watcher is
\* to start at once, else a fresh (Signal, Pulse) pair
NewWatchSignal(a) ==
    IF a.watch_immediately \/ a.count = 0 THEN "pulsed" ELSE "unfired"

\* match ip { V4 => spawn_blocking(listener), spawn_blocking(blaster); V6 => todo!() }
Spawn ==
    /\ pcS = "spawn"
    /\ IF ipV6
         THEN /\ pcS' = "exited"
              /\ exitCode' = ExitStatus("panic")
              /\ UNCHANGED <<watch_signal, pcL, pcB>>
         ELSE /\ pcS' = "race"
              /\ exitCode' = exitCode
              /\ watch_signal' = NewWatchSignal(args)
              /\ pcL' = "start"
              /\ pcB' = "delay"
    /\ UNCHANGED <<cfgVars, args, ipV6, preExisting, added, ip_managed, addrPresent, found, nl, winner, runErr,
                   tdFailed, extRemoved>>
    /\ UNCHANGED <<sigVars, resL, rxFrame, policy, rxCount, warns, resB, n, txFrame>>

\* a worker's result is an Err
IsErr(res) == res \in {"fail", "io", "signal"}

\* terminator.recv().race(listener).race(blaster): each poll tries the
\* branches left to right and the first one that is ready completes the race
RaceWinner(t, rl, rb) ==
    IF t > 0 THEN "terminator"
    ELSE IF rl # "none" THEN "listener"
    ELSE IF rb # "none" THEN "blaster"
    ELSE "none"

\* what run returns once teardown is over
RunResult(teardownErr) == IF teardownErr THEN "err" ELSE "ok"

\* if let Err(err) = terminator.recv()...race(listener).race(blaster).await
\*     { eprintln!(..) }   then   if ip_managed { ... }  else  Ok(())
Race ==
    /\ pcS = "race"
    /\ LET w == RaceWinner(terminator, resL, resB) IN
       /\ w # "none"
       /\ winner' = w
       /\ terminator' = IF w = "terminator" THEN terminator - 1 ELSE terminator
       /\ runErr' = CASE w = "terminator" -> FALSE
                      [] w = "listener" -> IsErr(resL)
                      [] w = "blaster" -> IsErr(resB)
    /\ IF ip_managed
         THEN /\ pcS' = "td_find"
              /\ exitCode' = exitCode
         ELSE /\ pcS' = "exited"
              /\ exitCode' = ExitStatus(RunResult(FALSE))
    /\ UNCHANGED <<cfgVars, args, ipV6, preExisting, added, ip_managed, addrPresent, found, nl, tdFailed, extRemoved>>
    /\ UNCHANGED <<handler, interrupts, lisVars, blaVars, watch_signal>>

\* if let Some(addr) = find_addr_for_ip(&nlah, interface, ip).await? { ... }
TeardownFind ==
    /\ pcS = "td_find"
    /\ nl' = [nl EXCEPT !.list = @ + 1]
    /\ \E ok \in BOOLEAN :
         LET r == FindAddr(addrPresent, ok) IN
         CASE r = "err" ->
                /\ tdFailed' = TRUE
                /\ pcS' = "exited" /\ exitCode' = ExitStatus(RunResult(TRUE))
           [] r = "some" ->
                /\ tdFailed' = tdFailed
                /\ pcS' = "td_del" /\ exitCode' = exitCode
           [] r = "none" ->
                /\ tdFailed' = tdFailed
                /\ pcS' = "exited" /\ exitCode' = ExitStatus(RunResult(FALSE))
    /\ UNCHANGED <<cfgVars, args, ipV6, preExisting, added, ip_managed, addrPresent, found, winner, runErr, extRemoved>>
    /\ UNCHANGED <<sigVars, lisVars, blaVars, watch_signal>>

\* nlah.del(addr).execute().await?;  Ok(())
TeardownDel ==
    /\ pcS = "td_del"
    /\ nl' = [nl EXCEPT !.del = @ + 1]
    /\ \E ok \in BOOLEAN :
         /\ addrPresent' = IF ok THEN FALSE ELSE addrPresent
         /\ tdFailed' = ~ok
         /\ pcS' = "exited"
         /\ exitCode' = ExitStatus(RunResult(~ok))
    /\ UNCHANGED <<cfgVars, args, ipV6, preExisting, added, ip_managed, found, winner, runErr, extRemoved>>
    /\ UNCHANGED <<sigVars, lisVars, blaVars, watch_signal>>

\* ------------------------------------------------------- interrupt handler

\* oconnor.try_send(()) on the bounded(1) channel
TrySend(q) == IF q < ShutdownCapacity THEN "ok" ELSE "full"

\* SIGINT/SIGTERM: ctrlc's thread runs the handler; .expect() on a full
\* channel panics that thread, after which no handler runs again
Interrupt ==
    /\ handler = "installed"
    /\ pcS # "exited"
    /\ interrupts < MaxInterrupts
    /\ interrupts' = interrupts + 1
    /\ IF TrySend(terminator) = "ok"
         THEN /\ terminator' = terminator + 1
              /\ handler' = handler
         ELSE /\ terminator' = terminator
              /\ handler' = "panicked"
    /\ UNCHANGED <<cfgVars, args, ipV6, preExisting, added, addrPresent, nl, extRemoved, supVars>>
    /\ UNCHANGED <<lisVars, blaVars, watch_signal>>

\* the workers are threads of the process: they run until it exits
Alive == pcS \in {"race", "td_find", "td_del"}

\* ---------------------------------------------------------------- listener

\* if let Watch::No = watch { return Ok(()); }
ListenerStart ==
    /\ Alive
    /\ pcL = "start"
    /\ IF args.watch = "No"
         THEN pcL' = "done" /\ resL' = "ok"
         ELSE pcL' = "wait" /\ resL' = resL
    /\ UNCHANGED <<cfgVars, args, ipV6, preExisting, added, addrPresent, nl, extRemoved, supVars, sigVars>>
    /\ UNCHANGED <<rxFrame, policy, rxCount, warns, blaVars, watch_signal>>

\* watch_signal.wait().map_err(..)?: returns once the signal is pulsed, and
\* Err once its Pulse was dropped unfired
ListenerWait ==
    /\ Alive
    /\ pcL = "wait"
    /\ watch_signal \in {"pulsed", "dropped"}
    /\ IF watch_signal = "pulsed"
         THEN pcL' = "delay" /\ resL' = resL
         ELSE pcL' = "done" /\ resL' = "signal"
    /\ UNCHANGED <<cfgVars, args, ipV6, preExisting, added, addrPresent, nl, extRemoved, supVars, sigVars>>
    /\ UNCHANGED <<rxFrame, policy, rxCount, warns, blaVars, watch_signal>>

\* wait(watch_delay);
ListenerDelay ==
    /\ Alive
    /\ pcL = "delay"
    /\ pcL' = "loop"
    /\ UNCHANGED <<cfgVars, args, ipV6, preExisting, added, addrPresent, nl, extRemoved, supVars, sigVars>>
    /\ UNCHANGED <<resL, rxFrame, policy, rxCount, warns, blaVars, watch_signal>>

\* a policy under which Watch::Log returns like Watch::Quit
PolicyActionLogQuits(f, watch) ==
    IF Conflict(f) THEN (IF watch = "Log" THEN "Quit" ELSE watch) ELSE "none"

\* the policy action the listener takes on a decoded ARP frame
PolicyAction(f, watch) == IF Conflict(f) THEN watch ELSE "none"

\* one iteration of the listener's loop on frame f
ListenerStep(f) ==
    LET d == Decode(f)
        act == IF d = "arp" THEN PolicyAction(f, args.watch) ELSE "none"
    IN  /\ rxFrame' = f
        /\ rxCount' = rxCount + 1
        /\ policy' = act
        /\ warns' = IF act = "Log" THEN warns + 1 ELSE warns
        /\ CASE d \in {"eth_short", "arp_short"} -> pcL' = "done" /\ resL' = "io"
             [] d = "skip" -> pcL' = "loop" /\ resL' = resL
             [] d = "arp" /\ act = "Fail" -> pcL' = "done" /\ resL' = "fail"
             [] d = "arp" /\ act = "Quit" -> pcL' = "done" /\ resL' = "quit"
             [] d = "arp" /\ act \in {"Log", "none"} -> pcL' = "loop" /\ resL' = resL

\* loop { let pkt = rx.next()?; ... }
ListenerRecv ==
    /\ Alive
    /\ pcL = "loop"
    /\ rxCount < MaxRx
    /\ \/ \E f \in WireFrames(txFrame) : ListenerStep(f)
       \/ /\ pcL' = "done"
          /\ resL' = "io"
          /\ UNCHANGED <<rxFrame, policy, rxCount, warns>>
    /\ UNCHANGED <<cfgVars, args, ipV6, preExisting, added, addrPresent, nl, extRemoved, supVars, sigVars>>
    /\ UNCHANGED <<blaVars, watch_signal>>

\* ----------------------------------------------------------------- blaster

\* the closure returns: its captured watch_pulse, if still Some, is dropped
DropPulse(s) == IF s = "unfired" THEN "dropped" ELSE s

\* a count check that is off by one
CountReachedOffByOne(count, sent) == count > 0 /\ sent > count

\* if args.count > 0 && n >= args.count { return Ok(()); }
CountReached(count, sent) == count > 0 /\ sent >= count

\* wait(args.delay);
BlasterDelay ==
    /\ Alive
    /\ pcB = "delay"
    /\ pcB' = "send"
    /\ UNCHANGED <<cfgVars, args, ipV6, preExisting, added, addrPresent, nl, extRemoved, supVars, sigVars>>
    /\ UNCHANGED <<lisVars, resB, n, txFrame, watch_signal>>

\* build the frame; tx.send_to(eth.packet(), None)...?; n = n.saturating_add(1);
\* return Ok(()) when the count is reached
BlasterSend ==
    /\ Alive
    /\ pcB = "send"
    /\ n < MaxSends
    /\ \E ok \in BOOLEAN :
         IF ok
           THEN /\ n' = n + 1
                /\ txFrame' = EncodeFrame(BlasterFrame(args.arp_reply))
                /\ IF CountReached(args.count, n + 1)
                     THEN /\ pcB' = "done" /\ resB' = "ok"
                          /\ watch_signal' = DropPulse(watch_signal)
                     ELSE /\ pcB' = "pulse" /\ resB' = resB
                          /\ watch_signal' = watch_signal
           ELSE /\ n' = n
                /\ txFrame' = txFrame
                /\ pcB' = "done" /\ resB' = "io"
                /\ watch_signal' = DropPulse(watch_signal)
    /\ UNCHANGED <<cfgVars, args, ipV6, preExisting, added, addrPresent, nl, extRemoved, supVars, sigVars>>
    /\ UNCHANGED <<lisVars>>

\* if let Some(pulse) = watch_pulse.take() { pulse.pulse(); }
BlasterPulse ==
    /\ Alive
    /\ pcB = "pulse"
    /\ watch_signal' = IF watch_signal = "unfired" THEN "pulsed" ELSE watch_signal
    /\ pcB' = "sleep"
    /\ UNCHANGED <<cfgVars, args, ipV6, preExisting, added, addrPresent, nl, extRemoved, supVars, sigVars>>
    /\ UNCHANGED <<lisVars, resB, n, txFrame>>

\* wait(jittered(args.interval, args.jitter));
BlasterSleep ==
    /\ Alive
    /\ pcB = "sleep"
    /\ pcB' = "send"
    /\ UNCHANGED <<cfgVars, args, ipV6, preExisting, added, addrPresent, nl, extRemoved, supVars, sigVars>>
    /\ UNCHANGED <<lisVars, resB, n, txFrame, watch_signal>>

\* ------------------------------------------------------------- environment

\* someone else removes the address while the workers run: the case in
\* which teardown's find returns None
ExternalRemove ==
    /\ pcS = "race"
    /\ addrPresent
    /\ ~extRemoved
    /\ addrPresent' = FALSE
    /\ extRemoved' = TRUE
    /\ UNCHANGED <<cfgVars, args, ipV6, preExisting, added, nl, supVars, sigVars, lisVars, blaVars, watch_signal>>

\* ------------------------------------------------------------ specification

Next ==
    \/ OpenChannel
    \/ SetHandler
    \/ PreflightFind
    \/ PreflightAdd
    \/ Spawn
    \/ Race
    \/ TeardownFind
    \/ TeardownDel
    \/ Interrupt
    \/ ListenerStart
    \/ ListenerWait
    \/ ListenerDelay
    \/ ListenerRecv
    \/ BlasterDelay
    \/ BlasterSend
    \/ BlasterPulse
    \/ BlasterSleep
    \/ ExternalRemove

Spec == Init /\ [][Next]_vars

\* ------------------------------------------------- runs of any claim

\* the claims enumerated: --ip, --mac (or the interface's) and --target
ClaimSet ==
    [ip : {ClaimIp, OtherIp}, mac : {ClaimMac, OtherMac}, target : {Broadcast, OtherMac}]

\* the options of the runs of SpecFrame: a managed address that is added,
\* a watcher that logs, either ARP operation
FrameArgsSet ==
    [unmanaged_ip : {FALSE},
     die_if_ip_exists : {FALSE},
     remove_pre_existing_ip : {FALSE},
     watch : {"Log"},
     watch_immediately : {FALSE},
     count : {0, MaxCount},
     arp_reply : BOOLEAN,
     once : {FALSE},
     interval : {MaxSecs},
     jitter : {0},
     delay : {0}]

InitFrame ==
    /\ args \in FrameArgsSet
    /\ argv = args
    /\ prep = "ok"
    /\ claim \in ClaimSet
    /\ ipV6 = FALSE
    /\ pcS = "open"
    /\ addrPresent = FALSE
    /\ InitRun

SpecFrame == InitFrame /\ [][Next]_vars

\* ------------------------------------------------------------------- prep

\* if args.once { delay = 0; jitter = 0; count = 1; watch = Watch::No }
ApplyOnce(a) ==
    IF a.once THEN [a EXCEPT !.delay = 0, !.jitter = 0, !.count = 1, !.watch = "No"]
    ELSE a

\* a prep that checks jitter against interval before it applies --once
PrepOptionsValidateFirst(a) ==
    [args |-> ApplyOnce(a), err |-> a.jitter > a.interval]

\* prep's handling of the options: the --once override, then the
\* jitter > interval check
PrepOptions(a) ==
    LET b == ApplyOnce(a)
    IN [args |-> b, err |-> b.jitter > b.interval]

\* prep(), from the --once override on: Err on jitter > interval; Err when
\* the environment is not usable (--ip or --interface missing, no such
\* interface, loopback, point-to-point, down, no mac); else Ok and `run`
\* starts.  main returns 1 on Err.
Prep ==
    /\ pcS = "prep"
    /\ LET r == PrepOptions(args) IN
         /\ args' = r.args
         /\ ip_managed' = ~r.args.unmanaged_ip
         /\ IF r.err
              THEN /\ prep' = "jitter"
                   /\ pcS' = "exited"
                   /\ exitCode' = ExitStatus("err")
              ELSE \E envOk \in BOOLEAN :
                     IF envOk THEN /\ prep' = "ok"
                                   /\ pcS' = "open"
                                   /\ exitCode' = exitCode
                              ELSE /\ prep' = "env"
                                   /\ pcS' = "exited"
                                   /\ exitCode' = ExitStatus("err")
    /\ UNCHANGED <<argv, claim, slept, ipV6, preExisting, added, addrPresent, found, nl,
                   winner, runErr, tdFailed, extRemoved>>
    /\ UNCHANGED <<sigVars, lisVars, blaVars, watch_signal>>

\* the command lines of the runs of SpecPrep: every combination of --once,
\* --interval, --jitter and --delay, for a managed address that is added
PrepArgsSet ==
    [unmanaged_ip : {FALSE},
     die_if_ip_exists : {FALSE},
     remove_pre_existing_ip : {FALSE},
     watch : {"Log"},
     watch_immediately : {FALSE},
     count : {MaxCount},
     arp_reply : {FALSE},
     once : BOOLEAN,
     interval : 0..MaxSecs,
     jitter : 0..MaxSecs,
     delay : 0..MaxSecs]

\* a process at the entry of prep's option handling
InitPrep ==
    /\ args \in PrepArgsSet
    /\ argv = args
    /\ prep = "pending"
    /\ claim = DefaultClaim
    /\ ipV6 = FALSE
    /\ pcS = "prep"
    /\ addrPresent = FALSE
    /\ InitRun

NextPrep ==
    \/ Prep
    \/ Next

SpecPrep == InitPrep /\ [][NextPrep]_vars

\* --------------------------------------------------------------- jittered

\* a jittered whose random part may reach the whole jitter
JitteredInclusive(base, jitter) ==
    LET j == jitter * MsPerSec
    IN IF base = 0 /\ j = 0 THEN {0}
       ELSE IF j = 0 THEN {base * MsPerSec}
       ELSE { base * MsPerSec + r : r \in 0..j }

\* jittered(base, jitter) for whole seconds: the durations it may return,
\* in ms.  gen_range(0..j) draws from the half-open range.
Jittered(base, jitter) ==
    LET j == jitter * MsPerSec
    IN IF base = 0 /\ j = 0 THEN {0}
       ELSE IF j = 0 THEN {base * MsPerSec}
       ELSE { base * MsPerSec + r : r \in 0..(j - 1) }

\* wait(jittered(args.interval, args.jitter)): the blaster's sleep between
\* two frames, its duration recorded (0: wait returns without sleeping)
JitterSleep ==
    /\ slept = NotSlept
    /\ slept' \in Jittered(args.interval, args.jitter)
    /\ UNCHANGED <<argv, args, prep, claim, ipV6, preExisting, added, addrPresent, nl, extRemoved>>
    /\ UNCHANGED <<supVars, sigVars, lisVars, blaVars, watch_signal>>

\* the options prep accepts: jitter <= interval
JitterArgsSet ==
    { a \in [unmanaged_ip : {FALSE},
             die_if_ip_exists : {FALSE},
             remove_pre_existing_ip : {FALSE},
             watch : {"No"},
             watch_immediately : {FALSE},
             count : {0},
             arp_reply : {FALSE},
             once : {FALSE},
             interval : 0..MaxSecs,
             jitter : 0..MaxSecs,
             delay : {0}] : ~PrepOptions(a).err }

InitJitter ==
    /\ args \in JitterArgsSet
    /\ argv = args
    /\ prep = "ok"
    /\ claim = DefaultClaim
    /\ ipV6 = FALSE
    /\ pcS = "open"
    /\ addrPresent = FALSE
    /\ InitRun

SpecJitter == InitJitter /\ [][JitterSleep]_vars

\* ------------------------------------------------------------------ claims

\* the process has exited
Exited == pcS = "exited"

\* ip_managed_effective is true after preflight: the address was added by
\* this run, or was pre-existing and --remove-pre-existing-ip is set
ManagedAfterPreflight ==
    /\ ip_managed
    /\ \/ added
       \/ found = "some" /\ args.remove_pre_existing_ip /\ ~args.die_if_ip_exists

\* C1: whenever ip_managed_effective is true after preflight, the address
\* is absent from the interface once the process has exited, on every exit
\* path.
C1_AddressAbsentAfterExit ==
    (Exited /\ ManagedAfterPreflight) => ~addrPresent

\* C2: when a worker returns an error and that completion wins the race,
\* teardown runs and the process exits with status 1.
C2_WorkerErrorExitsOne ==
    (Exited /\ winner \in {"listener", "blaster"} /\ runErr) => exitCode = 1

\* C3: with watch No, count = N > 0, no interrupt and no I/O error, exactly
\* N frames have been transmitted when the process exits, with status 0,
\* and the watcher has received no frame.
C3_ExactlyCountFrames ==
    (/\ Exited
     /\ winner # "none"
     /\ args.watch = "No"
     /\ args.count > 0
     /\ interrupts = 0
     /\ resB # "io"
     /\ ~tdFailed)
    => (exitCode = 0 /\ n = args.count /\ rxCount = 0)

\* the conflict predicate of the specification, on the fields of a frame
SpecConflict(f) ==
    /\ f.sender_proto = f.target_proto
    /\ f.sender_proto = claim.ip
    /\ f.sender_hw # claim.mac

\* C4: for the frame the armed watcher last received, a policy action
\* (Fail error, Quit return, Log warning) has been taken if and only if it
\* is an ARP frame with sender_proto = target_proto = claim.ip and
\* sender_hw # claim.mac; the action is the one of watch_mode, and a Fail
\* or Quit action is the listener's result.
C4_PolicyIffConflict ==
    rxCount > 0 =>
      /\ (policy # "none") <=> (Decode(rxFrame) = "arp" /\ SpecConflict(rxFrame))
      /\ policy # "none" => policy = args.watch
      /\ (policy = "Fail") <=> (resL = "fail")
      /\ (policy = "Quit") <=> (resL = "quit")
      /\ policy = "Log" => warns > 0

\* C4's case: a competitor's gratuitous frame for claim.ip has drawn the
\* Fail action
C4_Witness ==
    /\ rxCount > 0
    /\ policy = "Fail" /\ resL = "fail"
    /\ rxFrame.sender_hw = OtherMac

\* C4's other case: one of our own announcements came back to the listener
\* and drew no action
C4_WitnessOwnFrame ==
    /\ rxCount > 0 /\ n > 0
    /\ rxFrame = DecodeBytes(txFrame)
    /\ policy = "none"

\* C5: with watch_immediately false and watch_mode not No, the watcher has
\* received no frame while the announcer has transmitted none, for every
\* count; and the watcher is past its wait only when watch_armed has fired.
C5_NoReceiveBeforeFirstTransmit ==
    /\ (~args.watch_immediately /\ args.watch # "No" /\ rxCount > 0) => n > 0
    /\ pcL \in {"delay", "loop"} => watch_signal = "pulsed"

\* C6: with watch_mode Quit, when the watcher has returned success on a
\* conflicting frame and won the race, the process exits with status 0.
C6_QuitExitsZero ==
    (Exited /\ args.watch = "Quit" /\ winner = "listener" /\ resL = "quit")
        => (exitCode = 0 /\ ~runErr)

\* C7: with watch_mode Log the listener never returns because of a
\* conflict (it ends only on an I/O error or a dropped watch signal), each
\* conflicting frame received adds exactly one WARN record and leaves the
\* listener in its loop, and the listener wins the race only with an error
\* that is not a conflict.
C7_LogNeverTerminates ==
    /\ [](args.watch = "Log" => resL \in {"none", "io", "signal"})
    /\ [](args.watch = "Log" /\ winner = "listener" => runErr)
    /\ [][(args.watch = "Log" /\ rxCount' = rxCount + 1)
            => IF Decode(rxFrame') = "arp" /\ SpecConflict(rxFrame')
                 THEN warns' = warns + 1 /\ pcL' = "loop" /\ resL' = "none"
                 ELSE warns' = warns]_vars

\* C7's case: a conflicting frame was logged and the listener went on to
\* receive a second conflicting frame, logged too
C7_Witness ==
    /\ args.watch = "Log"
    /\ rxCount = 2 /\ warns = 2
    /\ pcL = "loop"

\* C8: with manage_ip and die_if_exists set and the address present at
\* startup, no add and no delete is issued, no frame is transmitted, neither
\* worker is started, and the process exits with status 1.
C8_DieIfExists ==
    (~args.unmanaged_ip /\ args.die_if_ip_exists /\ preExisting) =>
      /\ nl.add = 0 /\ nl.del = 0
      /\ n = 0
      /\ pcL = "none" /\ pcB = "none" /\ winner = "none"
      /\ Exited => exitCode = 1

\* C8's case: the preflight found the address and the run aborted
C8_Witness ==
    /\ ~args.unmanaged_ip /\ args.die_if_ip_exists /\ preExisting
    /\ found = "some"
    /\ Exited /\ exitCode = 1

\* C9: a delete is issued only if manage_ip is true and this run added the
\* address or remove_preexisting is set; a pre-existing address with
\* remove_preexisting false (that nobody else removed) is still present
\* after the process exits; with manage_ip false no list, add or delete is
\* ever issued.
C9_DeleteOnlyWhatIsOwned ==
    /\ nl.del > 0 => (~args.unmanaged_ip /\ (added \/ args.remove_pre_existing_ip))
    /\ (Exited /\ preExisting /\ ~args.remove_pre_existing_ip /\ ~extRemoved) => addrPresent
    /\ args.unmanaged_ip => (nl.list = 0 /\ nl.add = 0 /\ nl.del = 0)

\* C9's case: a managed run found a pre-existing address, ran to the end of
\* the race without remove_preexisting, and exited leaving it in place
C9_Witness ==
    /\ ~args.unmanaged_ip /\ ~args.remove_pre_existing_ip
    /\ found = "some" /\ ~ip_managed
    /\ winner # "none" /\ Exited
    /\ addrPresent /\ nl.del = 0

\* C10: when an interrupt has won the race, the process exits with status
\* 0 and, when ip_managed_effective, with the address removed.
C10_InterruptExitsClean ==
    (Exited /\ winner = "terminator")
        => (exitCode = 0 /\ (ManagedAfterPreflight => ~addrPresent))

\* C11: an error in teardown (the second find or the delete failing) does
\* not change the exit status of a run that ended without error (by
\* interrupt, by reaching count, by a Quit conflict): it still exits 0.
C11_TeardownErrorKeepsStatus ==
    (Exited /\ winner # "none" /\ ~runErr /\ tdFailed) => exitCode = 0

\* C12: with count > 0 the announcer never transmits more than count
\* frames and has returned success as soon as the count-th frame is out;
\* once returned it neither sends nor sleeps again; with count = 0 it
\* never returns success, so it completes the race only with an error.
C12_CountStopsAnnouncer ==
    /\ [](args.count > 0 => n <= args.count)
    /\ []((args.count > 0 /\ n = args.count) => (pcB = "done" /\ resB = "ok"))
    /\ [](args.count = 0 => resB \in {"none", "io"})
    /\ []((args.count = 0 /\ winner = "blaster") => runErr)
    /\ [][pcB = "done" => (pcB' = "done" /\ n' = n)]_vars

\* C12's case: count = 2, the second frame is out and the announcer has
\* returned Ok
C12_Witness ==
    /\ args.count = 2 /\ n = 2
    /\ pcB = "done" /\ resB = "ok"

\* C16: the interrupt handler never fails, whatever the number of
\* interrupts, and the shutdown queue never holds more than one entry.
C16_HandlerOnlyEnqueues ==
    /\ terminator <= ShutdownCapacity
    /\ handler # "panicked"

\* C17: a teardown whose lookup succeeded leaves the address absent: it has
\* looked the record up again and issued one delete for a record that was
\* there, and no delete and no error for a record that was already gone,
\* in which case a run without error exits 0.
C17_TeardownIdempotent ==
    (Exited /\ winner # "none" /\ ip_managed /\ ~tdFailed) =>
      /\ nl.list = 2
      /\ ~addrPresent
      /\ nl.del = IF extRemoved THEN 0 ELSE 1
      /\ ~runErr => exitCode = 0

\* C17's case: the address was removed by someone else before teardown,
\* which found nothing, deleted nothing and let the process exit 0
C17_Witness ==
    /\ Exited /\ winner # "none" /\ ip_managed /\ ~tdFailed
    /\ extRemoved
    /\ nl.del = 0 /\ exitCode = 0

\* C18: once the race is decided and teardown has begun, the announcer
\* transmits no further frame.
C18_NoFrameAfterTeardownBegins ==
    [][(pcS \in {"td_find", "td_del"}) => (n' = n)]_vars

\* C19: with an IPv6 --ip no add is ever issued.
C19_NoAddForIpv6 ==
    ipV6 => nl.add = 0

\* C13: every frame the announcer transmits is 42 bytes with Ethernet
\* src = claim.mac, dst = target, ethertype 0x0806, htype 1, ptype 0x0800,
\* hlen 6, plen 4, sender_hw = target_hw = claim.mac, sender_proto =
\* target_proto = claim.ip and op = 2 for --arp-reply, else 1; the
\* watcher's decoder classifies it as a gratuitous ARP packet, and takes no
\* policy action on it.
C13_TransmittedFrame ==
    /\ (n > 0) <=> (txFrame # <<>>)
    /\ txFrame # <<>> =>
         /\ Len(txFrame) = 42
         /\ LET f == DecodeBytes(txFrame) IN
              /\ f.src = claim.mac
              /\ f.dst = claim.target
              /\ f.ethertype = 2054
              /\ f.htype = 1
              /\ f.ptype = 2048
              /\ f.hlen = 6
              /\ f.plen = 4
              /\ f.sender_hw = claim.mac /\ f.target_hw = claim.mac
              /\ f.sender_proto = claim.ip /\ f.target_proto = claim.ip
              /\ f.op = IF args.arp_reply THEN 2 ELSE 1
              /\ Decode(f) = "arp"
              /\ Gratuitous(f)
              /\ (rxCount > 0 /\ rxFrame = f) => policy = "none"

\* C13's case: a reply to a unicast target, sent twice, and the watcher has
\* received it back
C13_Witness ==
    /\ n = 2
    /\ args.arp_reply
    /\ claim.target = OtherMac
    /\ claim.mac = OtherMac
    /\ rxCount > 0
    /\ rxFrame = DecodeBytes(txFrame)

\* C14: --once forces delay = 0, jitter = 0, count = 1, watch = No before
\* the jitter <= interval check, so a run with --once is never rejected for
\* its jitter; without --once, jitter > interval is rejected with exit
\* status 1 before any side effect, and nothing happens afterwards.
C14_OnceBeforeValidation ==
    /\ [](prep = "jitter" <=> (pcS # "prep" /\ ~argv.once /\ argv.jitter > argv.interval))
    /\ [](prep = "jitter" =>
            /\ Exited /\ exitCode = 1
            /\ handler = "none" /\ terminator = 0
            /\ nl = [list |-> 0, add |-> 0, del |-> 0]
            /\ ~added /\ ~addrPresent
            /\ n = 0 /\ txFrame = <<>>
            /\ pcL = "none" /\ pcB = "none" /\ watch_signal = "none")
    /\ []((prep = "ok" /\ argv.once) =>
            args = [argv EXCEPT !.delay = 0, !.jitter = 0, !.count = 1, !.watch = "No"])
    /\ []((prep = "ok" /\ ~argv.once) => args = argv)
    /\ [][prep # "jitter"]_vars

\* C14's case: --once with jitter > interval on the command line: prep
\* accepted it and the single frame is out
C14_Witness ==
    /\ argv.once /\ argv.jitter > argv.interval /\ argv.watch = "Log"
    /\ prep = "ok"
    /\ n = 1 /\ pcB = "done"

\* C15: for whole-second interval and jitter with jitter <= interval, the
\* sleep between two frames lies in [interval, interval + jitter) when
\* jitter > 0, is interval when jitter = 0, and is 0 when both are 0.
C15_JitteredRange ==
    slept # NotSlept =>
      /\ args.jitter <= args.interval
      /\ args.jitter > 0 =>
           /\ args.interval * 1000 <= slept
           /\ slept < (args.interval + args.jitter) * 1000
      /\ args.jitter = 0 => slept = args.interval * 1000
      /\ (args.interval = 0 /\ args.jitter = 0) => slept = 0

\* C15's case: the longest sleep of interval = 1 s, jitter = 1 s
C15_Witness ==
    /\ args.interval = 1 /\ args.jitter = 1
    /\ slept = 1999

====
